---------------------------- MODULE Spec2Model ----------------------------
(***************************************************************************)
(* A model of pyabif's ABIF reader (src/pyabif/abif.py): the handle's      *)
(* lifecycle (open / close / with-block), the directory reader, and the    *)
(* value decoder, over byte-exact sources.                                 *)
(*                                                                         *)
(* Bytes are integers 0..255, a byte string is a sequence of them, a text  *)
(* string is a sequence of code points.  A Python value is a record        *)
(*   [t |-> kind, v |-> integers, items |-> elements of a list]            *)
(* and an exception is named by its Python class.                          *)
(***************************************************************************)
EXTENDS Integers, Sequences, FiniteSets, TLC

(***************************************************************************)
(* Python values                                                           *)
(***************************************************************************)
Elem(t, v) == [t |-> t, v |-> v]

Val(t, v) == [t |-> t, v |-> v, items |-> <<>>]

ListVal(items) == [t |-> "list", v |-> <<>>, items |-> items]

NoVal == Val("none", <<>>)

RECURSIVE Pow(_, _)
Pow(b, e) == IF e = 0 THEN 1 ELSE b * Pow(b, e - 1)

\* struct.pack of a signed integer, big-endian, w bytes (two's complement).
Pack(n, w) == [i \in 1..w |-> (n \div Pow(256, w - i)) % 256]

RECURSIVE UnpackU(_)
UnpackU(b) ==
    IF b = <<>> THEN 0 ELSE UnpackU(SubSeq(b, 1, Len(b) - 1)) * 256 + b[Len(b)]

\* A signed big-endian integer: the first byte carries the sign.
UnpackS(b) ==
    LET hi == IF b[1] >= 128 THEN b[1] - 256 ELSE b[1]
    IN  hi * Pow(256, Len(b) - 1) + UnpackU(SubSeq(b, 2, Len(b)))

(***************************************************************************)
(* struct formats.  A format is "bad" (struct.error at calcsize) or a      *)
(* sequence of items [n |-> repeat count, c |-> code].                     *)
(***************************************************************************)
It(n, c) == [n |-> n, c |-> c]

BadFmt == <<It(0, "-")>>

IsBadFmt(fmt) == \E i \in 1..Len(fmt) : fmt[i].c = "-"

CodeSize(c) ==
    CASE c \in {"B", "?", "s", "p"} -> 1
      [] c \in {"H", "h"} -> 2
      [] c \in {"l", "i", "f"} -> 4
      [] c = "d" -> 8
      [] OTHER -> 0

RECURSIVE CalcSize(_)
CalcSize(fmt) ==
    IF fmt = <<>> THEN 0
    ELSE Head(fmt).n * CodeSize(Head(fmt).c) + CalcSize(Tail(fmt))

\* One unpacked element of code c from its bytes b.
UnpackElem(c, b) ==
    CASE c \in {"B", "H"} -> Elem("int", <<UnpackU(b)>>)
      [] c \in {"h", "l", "i"} -> Elem("int", <<UnpackS(b)>>)
      [] c = "?" -> Elem("bool", <<IF b[1] = 0 THEN 0 ELSE 1>>)
      [] c \in {"f", "d"} -> Elem("float", b)
      [] c = "s" -> Elem("bytes", b)
      [] c = "p" ->
            LET n == IF b[1] < Len(b) - 1 THEN b[1] ELSE Len(b) - 1
            IN  Elem("bytes", SubSeq(b, 2, 1 + n))
      [] OTHER -> Elem("none", <<>>)

\* struct.unpack(fmt, b) for Len(b) = CalcSize(fmt): the list of elements.
RECURSIVE UnpackItems(_, _)
UnpackItems(fmt, b) ==
    IF fmt = <<>> THEN <<>>
    ELSE LET it == Head(fmt)
             sz == CodeSize(it.c)
         IN  IF it.c \in {"s", "p"}
             THEN <<UnpackElem(it.c, SubSeq(b, 1, it.n))>>
                  \o UnpackItems(Tail(fmt), SubSeq(b, it.n + 1, Len(b)))
             ELSE IF it.n = 0 THEN UnpackItems(Tail(fmt), b)
             ELSE <<UnpackElem(it.c, SubSeq(b, 1, sz))>>
                  \o UnpackItems(<<It(it.n - 1, it.c)>> \o Tail(fmt),
                                 SubSeq(b, sz + 1, Len(b)))

\* '0p' makes CPython's unpack ask for a byte string of negative size.
HasEmptyPascal(fmt) == \E i \in 1..Len(fmt) : fmt[i].c = "p" /\ fmt[i].n = 0

(***************************************************************************)
(* bytes.decode(): UTF-8, strict.  The result is the code points, or      *)
(* <<-1>> when the bytes are not valid UTF-8 (UnicodeDecodeError).         *)
(***************************************************************************)
IsCont(b, i) == i <= Len(b) /\ b[i] >= 128 /\ b[i] <= 191

\* The number of bytes of the character starting at b[i]; 0 when invalid.
Utf8Len(b, i) ==
    LET c == b[i]
        n == IF i < Len(b) THEN b[i + 1] ELSE 0
    IN  CASE c < 128 -> 1
          [] c >= 194 /\ c <= 223 -> IF IsCont(b, i + 1) THEN 2 ELSE 0
          [] c >= 224 /\ c <= 239 ->
                IF /\ IsCont(b, i + 1) /\ IsCont(b, i + 2)
                   /\ (c = 224 => n >= 160)
                   /\ (c = 237 => n <= 159)
                THEN 3 ELSE 0
          [] c >= 240 /\ c <= 244 ->
                IF /\ IsCont(b, i + 1) /\ IsCont(b, i + 2) /\ IsCont(b, i + 3)
                   /\ (c = 240 => n >= 144)
                   /\ (c = 244 => n <= 143)
                THEN 4 ELSE 0
          [] OTHER -> 0

Utf8Point(b, i, k) ==
    CASE k = 1 -> b[i]
      [] k = 2 -> (b[i] - 192) * 64 + (b[i + 1] - 128)
      [] k = 3 -> (b[i] - 224) * 4096 + (b[i + 1] - 128) * 64 + (b[i + 2] - 128)
      [] OTHER -> (b[i] - 240) * 262144 + (b[i + 1] - 128) * 4096
                  + (b[i + 2] - 128) * 64 + (b[i + 3] - 128)

DecodeError == <<-1>>

\* A decoded character c in front of the decoded rest.
Prepend(c, rest) == IF rest = DecodeError THEN DecodeError ELSE <<c>> \o rest

RECURSIVE DecodeFrom(_, _)
\* The character of k bytes at b[i], and what follows it.
DecodeStep(b, i, k) ==
    IF k = 0 THEN DecodeError
    ELSE Prepend(Utf8Point(b, i, k), DecodeFrom(b, i + k))

DecodeFrom(b, i) == IF i > Len(b) THEN <<>> ELSE DecodeStep(b, i, Utf8Len(b, i))

Decode(b) == DecodeFrom(b, 1)

(***************************************************************************)
(* Optional arguments and attributes: None is <<>>, a value x is <<x>>.    *)
(***************************************************************************)
None == <<>>

Some(x) == <<x>>

(***************************************************************************)
(* src/pyabif/abif.py:19-22: the Type Catalog and the two record formats.  *)
(* lead is the count written in the type's own text before its first code  *)
(* ('4B'): read() puts the element count, as text, right in front of it.   *)
(***************************************************************************)
TYPES ==
    << [lead |-> FALSE, items |-> BadFmt],                      \* 0  '-'
       [lead |-> FALSE, items |-> <<It(1, "B")>>],              \* 1  'B'
       [lead |-> FALSE, items |-> <<It(1, "B")>>],              \* 2  'B'
       [lead |-> FALSE, items |-> <<It(1, "H")>>],              \* 3  'H'
       [lead |-> FALSE, items |-> <<It(1, "h")>>],              \* 4  'h'
       [lead |-> FALSE, items |-> <<It(1, "l")>>],              \* 5  'l'
       [lead |-> FALSE, items |-> BadFmt],                      \* 6  '-'
       [lead |-> FALSE, items |-> <<It(1, "f")>>],              \* 7  'f'
       [lead |-> FALSE, items |-> <<It(1, "d")>>],              \* 8  'd'
       [lead |-> FALSE, items |-> BadFmt],                      \* 9  '-'
       [lead |-> FALSE, items |-> <<It(1, "h"), It(2, "B")>>],  \* 10 'h2B'
       [lead |-> TRUE,  items |-> <<It(4, "B")>>],              \* 11 '4B'
       [lead |-> FALSE, items |-> <<It(1, "l"), It(1, "l"),
                                    It(1, "B"), It(1, "B")>>],  \* 12 'llBB'
       [lead |-> FALSE, items |-> <<It(1, "?")>>],              \* 13 '?'
       [lead |-> FALSE, items |-> BadFmt],                      \* 14 '-'
       [lead |-> FALSE, items |-> BadFmt],                      \* 15 '-'
       [lead |-> FALSE, items |-> BadFmt],                      \* 16 '-'
       [lead |-> FALSE, items |-> BadFmt],                      \* 17 '-'
       [lead |-> FALSE, items |-> <<It(1, "p")>>],              \* 18 'p'
       [lead |-> FALSE, items |-> <<It(1, "s")>>] >>            \* 19 's'

\* TYPES[type_] with Python's indexing: 0-based, negative from the end.
TypeIndex(type_) ==
    IF type_ >= 0 /\ type_ < Len(TYPES) THEN type_ + 1
    ELSE IF type_ < 0 /\ type_ >= -Len(TYPES) THEN Len(TYPES) + type_ + 1
    ELSE 0

HEADER == <<It(4, "s"), It(1, "h")>>

ITEM == <<It(4, "s"), It(1, "i"), It(2, "h"), It(4, "i")>>

ABIF_MAGIC == <<65, 66, 73, 70>>

TDIR == <<116, 100, 105, 114>>

\* f'{ENDIAN}{TYPES[type_]}' for one element, f'{ENDIAN}{elements}{TYPES[type_]}'
\* otherwise: the count's digits join the type's own leading digits.
ReadFmt(ty, elements) ==
    LET e == TYPES[TypeIndex(ty)]
    IN  IF elements = 1 THEN e.items
        ELSE IF IsBadFmt(e.items) \/ elements < 0 THEN BadFmt
        ELSE LET first == Head(e.items)
                 n == IF e.lead THEN elements * 10 + first.n ELSE elements
             IN  <<It(n, first.c)>> \o Tail(e.items)

(***************************************************************************)
(* The binary file object: st is "open" or "closed", pos its position.     *)
(* An outcome is [kind, val, pos]: kind "ok" or the exception raised.      *)
(***************************************************************************)
Out(kind, val, pos) == [kind |-> kind, val |-> val, pos |-> pos]

\* fileobj.read(n) at pos: the bytes there are, up to n of them.
FileRead(F, pos, n) ==
    IF pos >= Len(F) THEN <<>>
    ELSE SubSeq(F, pos + 1, IF pos + n <= Len(F) THEN pos + n ELSE Len(F))

\* str.endswith('\x00') and the slice that drops it (lines 200-201).
StripNul(s) ==
    IF s = DecodeError THEN [kind |-> "UnicodeDecodeError", val |-> NoVal]
    ELSE IF Len(s) > 0 /\ s[Len(s)] = 0
    THEN [kind |-> "ok", val |-> Val("str", SubSeq(s, 1, Len(s) - 1))]
    ELSE [kind |-> "ok", val |-> Val("str", s)]

\* The post-processing of a one-element result (lines 190-201): bytes are
\* decoded, anything else has no decode() and is kept.
Single(e) ==
    IF e.t = "bytes" THEN StripNul(Decode(e.v))
    ELSE [kind |-> "ok", val |-> Val(e.t, e.v)]

\* Whether _unpack moves the file to the given offset: 'if offset:'.
Seeks(offset) == offset # None /\ offset[1] # 0

\* An outcome r at position pos.
At(r, pos) == Out(r.kind, r.val, pos)

\* Lines 190-203, on the unpacked list.
Unpacked(data, pos) ==
    IF Len(data) = 1 THEN At(Single(data[1]), pos) ELSE Out("ok", ListVal(data), pos)

\* Line 188, on the n bytes the format asks for.
UnpackRaw(fmt, raw, n, pos) ==
    IF Len(raw) # n THEN Out("struct.error", NoVal, pos)
    ELSE IF HasEmptyPascal(fmt) THEN Out("SystemError", NoVal, pos)
    ELSE Unpacked(UnpackItems(fmt, raw), pos)

\* Line 183: the bytes read at pos move the position.
UnpackRead(fmt, raw, n, pos) == UnpackRaw(fmt, raw, n, pos + Len(raw))

\* Lines 182-186: the bytes come from the file at pos, or from packed.
UnpackSized(F, st, pos, fmt, packed, n) ==
    IF packed = None /\ st = "closed" THEN Out("ValueError", NoVal, pos)
    ELSE IF packed = None THEN UnpackRead(fmt, FileRead(F, pos, n), n, pos)
    ELSE UnpackRaw(fmt, SubSeq(packed[1], 1, IF n <= Len(packed[1]) THEN n
                                             ELSE Len(packed[1])), n, pos)

\* ABIF._unpack(format, packed=None, offset=None)
Unpack(F, st, pos, fmt, packed, offset) ==
    IF Seeks(offset) /\ packed # None THEN Out("AssertionError", NoVal, pos)
    ELSE IF Seeks(offset) /\ st = "closed" THEN Out("ValueError", NoVal, pos)
    ELSE IF Seeks(offset) /\ offset[1] < 0 THEN Out("OSError", NoVal, pos)
    ELSE IF IsBadFmt(fmt)
    THEN Out("struct.error", NoVal, IF Seeks(offset) THEN offset[1] ELSE pos)
    ELSE UnpackSized(F, st, IF Seeks(offset) THEN offset[1] ELSE pos, fmt, packed,
                     CalcSize(fmt))

(***************************************************************************)
(* datetime.date / datetime.time / bytes, as read() applies them to the    *)
(* decoded value (lines 244-251).                                          *)
(***************************************************************************)
IsLeap(y) == (y % 4 = 0 /\ y % 100 # 0) \/ y % 400 = 0

DaysInMonth(y, m) ==
    IF m = 2 THEN (IF IsLeap(y) THEN 29 ELSE 28)
    ELSE IF m \in {4, 6, 9, 11} THEN 30 ELSE 31

\* The arguments of f(*value): the elements of a list.
Args(val) == [i \in 1..Len(val.items) |-> val.items[i].v[1]]

\* datetime.date(*value)
MakeDate(val) ==
    IF val.t # "list" \/ Len(val.items) # 3
    THEN [kind |-> "TypeError", val |-> NoVal]
    ELSE LET a == Args(val)
         IN  IF /\ a[1] >= 1 /\ a[1] <= 9999
                /\ a[2] >= 1 /\ a[2] <= 12
                /\ a[3] >= 1 /\ a[3] <= DaysInMonth(a[1], a[2])
             THEN [kind |-> "ok", val |-> Val("date", a)]
             ELSE [kind |-> "ValueError", val |-> NoVal]

\* datetime.time(*value): hour, minute, second, microsecond[, tzinfo]
MakeTime(val) ==
    IF val.t # "list" \/ Len(val.items) > 4
    THEN [kind |-> "TypeError", val |-> NoVal]
    ELSE LET a == Args(val) \o [i \in 1..(4 - Len(val.items)) |-> 0]
         IN  IF /\ a[1] >= 0 /\ a[1] <= 23
                /\ a[2] >= 0 /\ a[2] <= 59
                /\ a[3] >= 0 /\ a[3] <= 59
             THEN [kind |-> "ok", val |-> Val("time", a)]
             ELSE [kind |-> "ValueError", val |-> NoVal]

\* bytes(value): of an integer n, n zero bytes; of a list of integers, them.
MakeBytes(val) ==
    CASE val.t \in {"int", "bool"} ->
            IF val.v[1] < 0 THEN [kind |-> "ValueError", val |-> NoVal]
            ELSE [kind |-> "ok", val |-> Val("bytes", [i \in 1..val.v[1] |-> 0])]
      [] val.t = "list" ->
            IF \E i \in 1..Len(val.items) : val.items[i].t \notin {"int", "bool"}
            THEN [kind |-> "TypeError", val |-> NoVal]
            ELSE IF \E i \in 1..Len(val.items) :
                        val.items[i].v[1] < 0 \/ val.items[i].v[1] > 255
            THEN [kind |-> "ValueError", val |-> NoVal]
            ELSE [kind |-> "ok", val |-> Val("bytes", Args(val))]
      [] OTHER -> [kind |-> "TypeError", val |-> NoVal]

(***************************************************************************)
(* The Directory: a function from <<tag, number>> to the record            *)
(* (type_, elements, size, offset).                                        *)
(***************************************************************************)
Rec(type_, elements, size, offset) ==
    [type_ |-> type_, elements |-> elements, size |-> size, offset |-> offset]

\* Lines 244-251: the decoded value u, post-processed.
PostProcess(ty, user, u) ==
    IF u.kind # "ok" THEN u
    ELSE IF ty = 10 THEN At(MakeDate(u.val), u.pos)
    ELSE IF ty = 11 THEN At(MakeTime(u.val), u.pos)
    ELSE IF user THEN At(MakeBytes(u.val), u.pos)
    ELSE u

\* Lines 231-242 for the effective type ty: inline or offset storage.
Decoded(F, st, pos, rec, ty) ==
    IF TypeIndex(ty) = 0 THEN Out("IndexError", NoVal, pos)
    ELSE Unpack(F, st, pos, ReadFmt(ty, rec.elements),
                IF rec.size <= 4 THEN Some(Pack(rec.offset, 4)) ELSE None,
                IF rec.size <= 4 THEN None ELSE Some(rec.offset))

\* What read() does with a Directory Record (lines 226-253).
ReadRecord(F, st, pos, rec) ==
    PostProcess(IF rec.type_ >= 1024 THEN 1 ELSE rec.type_, rec.type_ >= 1024,
                Decoded(F, st, pos, rec, IF rec.type_ >= 1024 THEN 1 ELSE rec.type_))

\* ABIF.read(tag, number); hasDir: the handle has a directory attribute
\* (without one, __getattr__('directory') raises ValueError).
Read(F, st, pos, hasDir, dir, key) ==
    IF ~hasDir THEN Out("ValueError", NoVal, pos)
    ELSE IF key \notin DOMAIN dir THEN Out("AttributeError", NoVal, pos)
    ELSE ReadRecord(F, st, pos, dir[key])

(***************************************************************************)
(* open(): _read_header and _read_directory (lines 153-175).               *)
(***************************************************************************)
\* What _read_header leaves: version, dir_offset, dir_elements are None
\* when the call raised before assigning them.
Header(kind, pos, ver, off, elems) ==
    [kind |-> kind, pos |-> pos, version |-> ver, dir_offset |-> off,
     dir_elements |-> elems]

\* A _read_header that asserts on the bootstrap record's count field, not
\* on its tag number.
BootstrapByCount(ver, d) ==
    IF d.kind # "ok" THEN Header(d.kind, d.pos, ver, None, None)
    ELSE IF d.val.items[1].v # TDIR
    THEN Header("AssertionError", d.pos, ver, None, None)
    ELSE IF d.val.items[5].v[1] # 1
    THEN Header("AssertionError", d.pos, ver, None, None)
    ELSE Header("ok", d.pos, ver, Some(d.val.items[7].v[1]),
                Some(d.val.items[5].v[1]))

\* Lines 159-165, on the bootstrap record d.
Bootstrap(ver, d) ==
    IF d.kind # "ok" THEN Header(d.kind, d.pos, ver, None, None)
    ELSE IF d.val.items[1].v # TDIR
    THEN Header("AssertionError", d.pos, ver, None, None)
    ELSE IF d.val.items[2].v[1] # 1
    THEN Header("AssertionError", d.pos, ver, None, None)
    ELSE Header("ok", d.pos, ver, Some(d.val.items[7].v[1]),
                Some(d.val.items[5].v[1]))

\* Lines 155-158, on the header h.
Magic(F, st, h) ==
    IF h.kind # "ok" THEN Header(h.kind, h.pos, None, None, None)
    ELSE IF h.val.items[1].v # ABIF_MAGIC
    THEN Header("AssertionError", h.pos, None, None, None)
    ELSE Bootstrap(Some(h.val.items[2].v[1]),
                   Unpack(F, st, h.pos, ITEM, None, None))

\* ABIF._read_header
ReadHeader(F, st, pos) == Magic(F, st, Unpack(F, st, pos, HEADER, None, Some(0)))

\* Lines 173-175: the record's tag decoded, the record stored under its key.
Stored(it, tag, dir) ==
    IF tag = DecodeError THEN dir
    ELSE (<<tag, it[2].v[1]>> :> Rec(it[3].v[1], it[5].v[1], it[6].v[1], it[7].v[1]))
         @@ dir

RECURSIVE ReadEntries(_, _, _, _, _)
\* One turn of the loop on the unpacked record u, and the turns after it.
ReadEntry(F, st, n, dir, u) ==
    IF u.kind # "ok" THEN [kind |-> u.kind, pos |-> u.pos, dir |-> dir]
    ELSE IF Decode(u.val.items[1].v) = DecodeError
    THEN [kind |-> "UnicodeDecodeError", pos |-> u.pos, dir |-> dir]
    ELSE ReadEntries(F, st, u.pos, n - 1,
                     Stored(u.val.items, Decode(u.val.items[1].v), dir))

\* The loop of _read_directory: n more records from pos into dir.
ReadEntries(F, st, pos, n, dir) ==
    IF n <= 0 THEN [kind |-> "ok", pos |-> pos, dir |-> dir]
    ELSE ReadEntry(F, st, n, dir, Unpack(F, st, pos, ITEM, None, None))

\* The directory r as _read_directory leaves it.
Assigned(r) == [kind |-> r.kind, pos |-> r.pos, set |-> TRUE, dir |-> r.dir]

\* ABIF._read_directory: [kind, pos, set, dir]; set: self.directory was
\* assigned (the seek comes first).
ReadDirectory(F, st, pos, dir_off, dir_elems) ==
    IF st = "closed"
    THEN [kind |-> "ValueError", pos |-> pos, set |-> FALSE, dir |-> <<>>]
    ELSE IF dir_off < 0
    THEN [kind |-> "OSError", pos |-> pos, set |-> FALSE, dir |-> <<>>]
    ELSE Assigned(ReadEntries(F, st, dir_off, dir_elems, <<>>))

(***************************************************************************)
(* The sources the model opens: small ABIF files, byte for byte.           *)
(***************************************************************************)
T_DATA == <<68, 65, 84, 65>>

T_User == <<85, 115, 101, 114>>

T_CMNT == <<67, 77, 78, 84>>

T_LANE == <<76, 65, 78, 69>>

T_RUND == <<82, 85, 78, 68>>

T_RUNT == <<82, 85, 78, 84>>

T_Rate == <<82, 97, 116, 101>>

T_OfSc == <<79, 102, 83, 99>>

T_DyeB == <<68, 121, 101, 66>>

T_MODL == <<77, 79, 68, 76>>

T_Zzzz == <<90, 122, 122, 122>>

\* One 28-byte record of layout ITEM; payload is the signed value of the
\* offset field.
Entry(tag, num, type_, elements, size, payload) ==
    tag \o Pack(num, 4) \o Pack(type_, 2) \o Pack(1, 2) \o Pack(elements, 4)
        \o Pack(size, 4) \o Pack(payload, 4) \o Pack(0, 4)

\* The offset field holding the given bytes (inline storage).
Inline(b) == UnpackS(b \o [i \in 1..(4 - Len(b)) |-> 0])

RECURSIVE Concat(_)
Concat(ss) == IF ss = <<>> THEN <<>> ELSE Head(ss) \o Concat(Tail(ss))

HeaderSize == 6

ItemSize == 28

\* A file: header, bootstrap record, data, then the directory table, of
\* which the bootstrap record declares `declared` entries.
MkFile(magic, bootTag, bootNum, declared, data, entries) ==
    magic \o Pack(101, 2)
          \o Entry(bootTag, bootNum, 1023, declared, declared * ItemSize,
                   HeaderSize + ItemSize + Len(data))
          \o data \o Concat(entries)

DataAt == HeaderSize + ItemSize

\* Offset-stored arrays and strings, and two inline values.
FileArrays ==
    MkFile(ABIF_MAGIC, TDIR, 1, 5,
           <<0, 1, 0, 2, 0, 3>> \o <<4, 106, 111, 97, 110>> \o <<97, 98, 0, 0, 0>>,
           << Entry(T_DATA, 1, 4, 3, 6, DataAt),
              Entry(T_User, 1, 18, 5, 5, DataAt + 6),
              Entry(T_CMNT, 1, 19, 5, 5, DataAt + 11),
              Entry(T_DATA, 2, 4, 1, 2, Inline(<<0, 7>>)),
              Entry(T_LANE, 1, 2, 1, 1, Inline(<<65>>)) >>)

\* An offset-stored array and a double whose payload offset is 0.
FileZero ==
    MkFile(ABIF_MAGIC, TDIR, 1, 2, <<0, 1, 0, 2, 0, 3>>,
           << Entry(T_DATA, 1, 4, 3, 6, DataAt),
              Entry(T_DATA, 3, 8, 1, 8, 0) >>)

\* Inline date, times, user-typed entries and strings.
FileTypes ==
    MkFile(ABIF_MAGIC, TDIR, 1, 7, <<>>,
           << Entry(T_RUND, 1, 10, 1, 4, Inline(<<7, 232, 1, 15>>)),
              Entry(T_RUNT, 1, 11, 1, 4, Inline(<<13, 5, 9, 0>>)),
              Entry(T_RUNT, 2, 11, 1, 4, Inline(<<13, 5, 9, 50>>)),
              Entry(T_Rate, 1, 1024, 1, 1, Inline(<<5>>)),
              Entry(T_Rate, 2, 1024, 3, 3, Inline(<<1, 2, 3>>)),
              Entry(T_CMNT, 1, 19, 1, 1, Inline(<<255>>)),
              Entry(T_CMNT, 2, 19, 2, 2, Inline(<<97, 0>>)) >>)

OneEntry == <<Entry(T_DATA, 2, 4, 1, 2, Inline(<<0, 7>>))>>

FileBadMagic == MkFile(<<65, 66, 73, 71>>, TDIR, 1, 1, <<>>, OneEntry)

FileBadTag == MkFile(ABIF_MAGIC, <<116, 100, 105, 115>>, 1, 1, <<>>, OneEntry)

FileBadNum == MkFile(ABIF_MAGIC, TDIR, 2, 1, <<>>, OneEntry)

\* Declares two entries and ends inside the second.
FileTruncDir ==
    MkFile(ABIF_MAGIC, TDIR, 1, 2, <<>>, OneEntry \o <<SubSeq(OneEntry[1], 1, 10)>>)

\* Ends inside the header.
FileTruncHeader == <<65, 66, 73>>

\* The second entry's tag is not text.
FileBadText ==
    MkFile(ABIF_MAGIC, TDIR, 1, 2, <<>>,
           OneEntry \o <<Entry(<<255, 65, 84, 65>>, 1, 4, 1, 2, 0)>>)

\* A caller's file object may have been read from before it is handed
\* over: the bytes read.
PreRead == 6

\* File objects the handle may leave open behind it.
MaxLeaked == 1

\* PreRead bytes that are no ABIF header, then a header, a bootstrap record
\* and the directory it points at.
FileEmbedded ==
    [i \in 1..PreRead |-> 88] \o ABIF_MAGIC \o Pack(101, 2)
        \o Entry(TDIR, 1, 1023, 1, ItemSize, PreRead + HeaderSize + ItemSize)
        \o Concat(OneEntry)

\* Entries of the reserved type codes 0, 6 and 17, inline and offset-stored.
FileReserved ==
    MkFile(ABIF_MAGIC, TDIR, 1, 3, <<0, 0, 0, 1, 0, 0, 0, 2>>,
           << Entry(T_DATA, 1, 0, 1, 1, Inline(<<9>>)),
              Entry(T_DATA, 2, 6, 2, 8, DataAt),
              Entry(T_DATA, 3, 17, 1, 4, Inline(<<0, 0, 0, 9>>)) >>)

Sources ==
    << FileArrays, FileZero, FileTypes, FileBadMagic, FileBadTag, FileBadNum,
       FileTruncDir, FileTruncHeader, FileBadText, FileEmbedded, FileReserved >>

\* The keys read() is called with.
Keys ==
    { <<T_DATA, 1>>, <<T_DATA, 2>>, <<T_DATA, 3>>, <<T_User, 1>>, <<T_User, 2>>,
      <<T_CMNT, 1>>, <<T_CMNT, 2>>, <<T_LANE, 1>>, <<T_RUND, 1>>, <<T_RUNT, 1>>,
      <<T_RUNT, 2>>, <<T_Rate, 1>>, <<T_Rate, 2>>, <<T_Zzzz, 9>> }

(***************************************************************************)
(* The accessor surface: the properties ABIFMeta generates from the Tag    *)
(* Catalog (lines 47-76), the overrides (lines 255-282) and the            *)
(* __getattr__ fallback (lines 205-216).  An attribute name is its text.   *)
(***************************************************************************)
RECURSIVE Digits(_)
Digits(n) == IF n < 10 THEN <<48 + n>> ELSE Digits(n \div 10) \o <<48 + (n % 10)>>

IsDigits(s) == Len(s) > 0 /\ \A i \in 1..Len(s) : s[i] >= 48 /\ s[i] <= 57

RECURSIVE IntOf(_)
IntOf(s) == IF s = <<>> THEN 0 ELSE IntOf(SubSeq(s, 1, Len(s) - 1)) * 10 + s[Len(s)] - 48

\* The Tag Catalog (tags.csv): (tag, number), the number None for 'N'.
Catalog ==
    { <<T_DATA, Some(1)>>, <<T_DATA, Some(2)>>, <<T_DATA, Some(3)>>,
      <<T_User, Some(1)>>, <<T_User, Some(2)>>, <<T_CMNT, Some(1)>>,
      <<T_CMNT, Some(2)>>, <<T_LANE, Some(1)>>, <<T_RUND, Some(1)>>,
      <<T_RUNT, Some(1)>>, <<T_RUNT, Some(2)>>, <<T_Rate, Some(1)>>,
      <<T_DyeB, Some(1)>>, <<T_MODL, Some(1)>>, <<T_OfSc, None>> }

\* tag + str(num)
AttrName(tag, num) == tag \o (IF num = None THEN <<78>> ELSE Digits(num[1]))

\* The overrides: DyeB returns chr(value), MODL1 bytes(value).decode().
ChrTags == {T_DyeB}

TextNames == {AttrName(T_MODL, Some(1))}

\* chr(value)
MakeChr(val) ==
    IF val.t \notin {"int", "bool"} THEN [kind |-> "TypeError", val |-> NoVal]
    ELSE IF val.v[1] < 0 \/ val.v[1] > 1114111
    THEN [kind |-> "ValueError", val |-> NoVal]
    ELSE [kind |-> "ok", val |-> Val("str", val.v)]

\* bytes.decode() of the override: the text s, nothing stripped.
TextOf(s) ==
    IF s = DecodeError THEN [kind |-> "UnicodeDecodeError", val |-> NoVal]
    ELSE [kind |-> "ok", val |-> Val("str", s)]

BytesText(b) == IF b.kind # "ok" THEN b ELSE TextOf(Decode(b.val.v))

\* bytes(value).decode()
MakeText(val) == BytesText(MakeBytes(val))

\* ABIF.__getattr__(attr)
GetAttr(F, st, pos, hasDir, dir, attr) ==
    IF attr = <<100, 105, 114, 101, 99, 116, 111, 114, 121>>
    THEN Out("ValueError", NoVal, pos)
    ELSE IF Len(attr) > 4
    THEN IF ~IsDigits(SubSeq(attr, 5, Len(attr))) THEN Out("ValueError", NoVal, pos)
         ELSE Read(F, st, pos, hasDir, dir,
                   <<SubSeq(attr, 1, 4), IntOf(SubSeq(attr, 5, Len(attr)))>>)
    ELSE Out("AttributeError", NoVal, pos)

\* The override of catalog entry e, if it has one, on the value read.
Override(e, r) ==
    IF r.kind # "ok" THEN r
    ELSE IF e[1] \in ChrTags THEN At(MakeChr(r.val), r.pos)
    ELSE IF AttrName(e[1], e[2]) \in TextNames THEN At(MakeText(r.val), r.pos)
    ELSE r

\* The property of catalog entry e.
Property(F, st, pos, hasDir, dir, e) ==
    IF e[2] = None
    THEN Out(IF hasDir THEN "AttributeError" ELSE "ValueError", NoVal, pos)
    ELSE Override(e, Read(F, st, pos, hasDir, dir, <<e[1], e[2][1]>>))

\* The catalog entries whose property (or unnumbered alias) is named attr.
Named(attr) ==
    {e \in Catalog : attr = AttrName(e[1], e[2]) \/ (e[2] = Some(1) /\ attr = e[1])}

\* Python falls back on __getattr__ when the property raises AttributeError.
Fallback(F, st, hasDir, dir, attr, r) ==
    IF r.kind = "AttributeError" THEN GetAttr(F, st, r.pos, hasDir, dir, attr) ELSE r

\* getattr(handle, attr): the class's property when there is one, and
\* __getattr__ when there is none.
Accessor(F, st, pos, hasDir, dir, attr) ==
    IF Named(attr) # {}
    THEN Fallback(F, st, hasDir, dir, attr,
                  Property(F, st, pos, hasDir, dir, CHOOSE e \in Named(attr) : TRUE))
    ELSE GetAttr(F, st, pos, hasDir, dir, attr)

\* The attribute names the model asks for.
Attrs ==
    { AttrName(T_DATA, Some(1)), AttrName(T_User, Some(2)),
      AttrName(T_Rate, Some(2)), AttrName(T_Zzzz, Some(9)),
      AttrName(T_OfSc, None), AttrName(T_DyeB, Some(1)),
      AttrName(T_MODL, Some(1)), T_User, T_Zzzz }

(***************************************************************************)
(* The handle (ABIF.__init__, lines 102-119) and its operations.           *)
(***************************************************************************)
VARIABLES
    src,           \* which of Sources the handle reads
    filename,      \* the handle was built from a filename
    fileobj,       \* self.fileobj: "None", "open" or "closed"
    pos,           \* the position of self.fileobj
    leaked,        \* file objects the handle opened, dropped while open
    closed,        \* self.closed: "None", "False" or "True"
    version,       \* self.version
    dir_offset,    \* self._dir_offset
    dir_elements,  \* self._dir_elements
    hasDirectory,  \* self.directory is set
    directory,     \* self.directory
    inWith,        \* control is inside the handle's with-block
    result,        \* the last call and its outcome
    first          \* an earlier read since the last open/close, remembered

vars ==
    << src, filename, fileobj, pos, leaked, closed, version, dir_offset,
       dir_elements, hasDirectory, directory, inWith, result, first >>

F == Sources[src]

NoKey == <<<<>>, 0>>

\* touch: what the call did to the file object ("opened", "close",
\* "reclose": close() of one already closed, or "none"); at: the position
\* open() read the header from, or -1.
Result(op, kind, val, key, touch, at) ==
    [op |-> op, kind |-> kind, val |-> val, key |-> key, touch |-> touch, at |-> at]

Init ==
    /\ src \in 1..Len(Sources)
    /\ filename \in BOOLEAN
    /\ fileobj = IF filename THEN "None" ELSE "open"
    /\ pos \in IF filename THEN {0} ELSE {0, PreRead}
    /\ leaked = 0
    /\ closed = "None"
    /\ version = None
    /\ dir_offset = None
    /\ dir_elements = None
    /\ hasDirectory = FALSE
    /\ directory = <<>>
    /\ inWith = FALSE
    /\ result = Result("init", "ok", NoVal, NoKey, "none", -1)
    /\ first = <<>>

\* What open() leaves after _read_header (h) and _read_directory (d).
OpenOut(h, d) ==
    [kind |-> d.kind, pos |-> d.pos, version |-> h.version,
     dir_offset |-> h.dir_offset, dir_elements |-> h.dir_elements,
     set |-> d.set, dir |-> d.dir]

\* Lines 136-137: _read_directory runs when _read_header returned.
AfterHeader(F_, st, h) ==
    IF h.kind = "ok"
    THEN OpenOut(h, ReadDirectory(F_, st, h.pos, h.dir_offset[1], h.dir_elements[1]))
    ELSE OpenOut(h, [kind |-> h.kind, pos |-> h.pos, set |-> FALSE, dir |-> <<>>])

\* Lines 136-137 on the file object in state st at pos.
OpenCall(F_, st, p) == AfterHeader(F_, st, ReadHeader(F_, st, p))

\* ABIF.open() (lines 132-139), called as op; o is what lines 136-137 leave
\* on the file object open() reads: a new one at 0 for a filename.
DoOpen(op, o) ==
    /\ filename /\ fileobj = "open" => leaked < MaxLeaked
    /\ fileobj' = IF filename THEN "open" ELSE fileobj
    /\ leaked' = IF filename /\ fileobj = "open" THEN leaked + 1 ELSE leaked
    /\ pos' = o.pos
    /\ version' = IF o.version # None THEN o.version ELSE version
    /\ dir_offset' = IF o.dir_offset # None THEN o.dir_offset ELSE dir_offset
    /\ dir_elements' = IF o.dir_elements # None THEN o.dir_elements ELSE dir_elements
    /\ hasDirectory' = (hasDirectory \/ o.set)
    /\ directory' = IF o.set THEN o.dir ELSE directory
    /\ closed' = IF o.kind = "ok" THEN "False" ELSE closed
    /\ result' = Result(op, o.kind, NoVal, NoKey,
                        IF filename THEN "opened" ELSE "none",
                        IF filename THEN 0 ELSE pos)
    /\ first' = <<>>
    /\ inWith' = IF op = "enter" THEN o.kind = "ok" ELSE inWith
    /\ UNCHANGED <<src, filename>>

Open ==
    DoOpen("open", OpenCall(F, IF filename THEN "open" ELSE fileobj,
                            IF filename THEN 0 ELSE pos))

\* ABIF.close() (lines 141-143), called as op.
DoClose(op) ==
    /\ fileobj' = IF closed = "False" THEN "closed" ELSE fileobj
    /\ result' = Result(op, "ok", NoVal, NoKey,
                        IF closed # "False" THEN "none"
                        ELSE IF fileobj = "open" THEN "close" ELSE "reclose", -1)
    /\ first' = <<>>
    /\ inWith' = IF op = "exit" THEN FALSE ELSE inWith
    /\ UNCHANGED << src, filename, pos, leaked, closed, version, dir_offset,
                    dir_elements, hasDirectory, directory >>

Close == DoClose("close")

\* ABIF.__enter__ (lines 145-148): the with-statement enters the block
\* only when it returns.
Enter ==
    /\ ~inWith
    /\ IF closed = "None" \/ closed = "True"
       THEN DoOpen("enter", OpenCall(F, IF filename THEN "open" ELSE fileobj,
                                     IF filename THEN 0 ELSE pos))
       ELSE /\ inWith' = TRUE
            /\ result' = Result("enter", "ok", NoVal, NoKey, "none", -1)
            /\ UNCHANGED << src, filename, fileobj, pos, leaked, closed, version,
                            dir_offset, dir_elements, hasDirectory, directory,
                            first >>

\* ABIF.__exit__ (lines 150-151): control leaves the block, normally or by
\* an exception raised inside it.
Exit ==
    /\ inWith
    /\ DoClose("exit")

IsOpen == closed = "False" /\ fileobj = "open"

\* The outcome r of a read of key k, recorded; a read of a Directory key
\* on an open handle may be the one remembered in first.
Finish(op, r, k) ==
    /\ pos' = r.pos
    /\ result' = Result(op, r.kind, r.val, k, "none", -1)
    /\ \/ first' = first
       \/ /\ first = <<>>
          /\ op = "read" /\ IsOpen /\ hasDirectory /\ k \in DOMAIN directory
          /\ first' = <<[key |-> k, kind |-> r.kind, val |-> r.val]>>
    /\ UNCHANGED << src, filename, fileobj, leaked, closed, version, dir_offset,
                    dir_elements, hasDirectory, directory, inWith >>

\* handle.read(tag, number)
ReadKey ==
    \E k \in Keys :
        Finish("read", Read(F, fileobj, pos, hasDirectory, directory, k), k)

\* handle.<attr>
ReadAttr ==
    \E a \in Attrs :
        Finish("getattr", Accessor(F, fileobj, pos, hasDirectory, directory, a),
               IF Len(a) > 4 /\ IsDigits(SubSeq(a, 5, Len(a)))
               THEN <<SubSeq(a, 1, 4), IntOf(SubSeq(a, 5, Len(a)))>>
               ELSE <<a, 0>>)

Next == Open \/ Close \/ Enter \/ Exit \/ ReadKey \/ ReadAttr

Spec == Init /\ [][Next]_vars

(***************************************************************************)
(* The error kinds of the specification, as the exceptions the code        *)
(* raises: line 207 raises ValueError for a handle with no Directory,      *)
(* line 224 AttributeError for a key the Directory lacks, and a malformed  *)
(* header fails an assert (lines 157-163) or struct.unpack (line 188).     *)
(***************************************************************************)
NotOpenError == "ValueError"

UnknownTagError == "AttributeError"

FormatError == {"AssertionError", "struct.error"}

\* The accessor names with a numeric suffix, and read(): the calls that
\* name a tag.
NamesTag == result.op = "read" \/ (result.op = "getattr" /\ result.key[2] > 0)

(***************************************************************************)
(* C1                                                                      *)
(***************************************************************************)
\* C1: as long as no open() has completed successfully, every read() and
\* every tag accessor fails with NotOpenError.
C1_ReadBeforeOpenFails ==
    (closed = "None" /\ NamesTag) => result.kind = NotOpenError

(***************************************************************************)
(* C2                                                                      *)
(***************************************************************************)
\* The fields of the file F_ that open() is said to check: the magic, the
\* bootstrap record's tag name, and a 4-byte field of it at boot + field.
MagicAt(F_, at) == FileRead(F_, at, 4)

BootTagAt(F_, at) == FileRead(F_, at + HeaderSize, 4)

BootFieldAt(F_, at, field) == FileRead(F_, at + HeaderSize + field, 4)

\* Offsets within a directory record (ITEM, line 22): tag number, count.
NumberField == 4

CountField == 12

BadField(b) == Len(b) # 4 \/ UnpackS(b) # 1

\* C2 as stated: open() on a source whose magic or bootstrap tag differs,
\* or whose bootstrap count is not 1, fails with FormatError, the
\* Directory unpopulated and the handle not Open.
C2_BadHeaderRejected ==
    ( /\ result.op \in {"open", "enter"}
      /\ result.at >= 0
      /\ fileobj = "open"
      /\ \/ MagicAt(F, 0) # ABIF_MAGIC
         \/ BootTagAt(F, 0) # TDIR
         \/ BadField(BootFieldAt(F, 0, CountField)) )
    => /\ result.kind \in FormatError
       /\ ~hasDirectory
       /\ closed # "False"

\* What open() read at position at is no header: the magic, the bootstrap
\* tag name or the bootstrap tag number differs.
HeaderBad(F_, at) ==
    \/ MagicAt(F_, at) # ABIF_MAGIC
    \/ BootTagAt(F_, at) # TDIR
    \/ BadField(BootFieldAt(F_, at, NumberField))

\* C2, amended: an open() that reads a differing magic, bootstrap tag name
\* or bootstrap tag number fails with FormatError and leaves the Directory
\* and the open state as they were before the call.
C2_BadHeaderLeavesHandle ==
    [][ ( /\ result'.op \in {"open", "enter"}
          /\ result'.at >= 0
          /\ fileobj' = "open"
          /\ HeaderBad(F, result'.at) )
        => /\ result'.kind \in FormatError
           /\ hasDirectory' = hasDirectory
           /\ directory' = directory
           /\ closed' = closed ]_vars

\* open() on a never-opened handle has read a bootstrap record whose tag
\* number is not 1 under a good magic and tag name, and has failed.
C2_BadNumberSeen ==
    /\ result.op = "open"
    /\ result.at >= 0
    /\ fileobj = "open"
    /\ MagicAt(F, result.at) = ABIF_MAGIC
    /\ BootTagAt(F, result.at) = TDIR
    /\ BadField(BootFieldAt(F, result.at, NumberField))
    /\ result.kind = "AssertionError"
    /\ ~hasDirectory
    /\ closed = "None"

(***************************************************************************)
(* C3                                                                      *)
(***************************************************************************)
\* C3: once control has left a scoped block, normally or by an error
\* (one raised while entering included), a source the handle opened from a
\* filename is closed.
C3_BlockReleasesSource ==
    (filename /\ result.op \in {"enter", "exit"} /\ ~inWith)
    => fileobj # "open"

(***************************************************************************)
(* C4                                                                      *)
(***************************************************************************)
\* C4: the first close() of an Open handle releases the source and makes
\* the handle Closed; a further close() does not touch the source again;
\* close() never raises.
C4_CloseOnce ==
    result.op = "close"
    => /\ result.kind = "ok"
       /\ result.touch # "reclose"
       /\ result.touch = "close" => (fileobj = "closed" /\ closed = "True")

(***************************************************************************)
(* C5                                                                      *)
(***************************************************************************)
\* The Tag Catalog has the key.
InCatalog(key) == <<key[1], Some(key[2])>> \in Catalog

\* C5: on an Open handle a tag the Catalog has and the Directory lacks
\* fails with UnknownTagError, and a tag the Catalog lacks fails with an
\* error that is neither that nor NotOpenError.
C5_DistinctErrors ==
    (IsOpen /\ hasDirectory /\ NamesTag /\ result.key \notin DOMAIN directory)
    => IF InCatalog(result.key)
       THEN result.kind = UnknownTagError
       ELSE result.kind \notin {"ok", UnknownTagError, NotOpenError}

(***************************************************************************)
(* C6 - C10: what read() returns for the entries of the Directory.         *)
(***************************************************************************)
\* The last call was read() of a Directory key on an Open handle.
ReadOfEntry == result.op = "read" /\ IsOpen /\ hasDirectory /\ result.key \in DOMAIN directory

\* The first n bytes of the payload of record rec in file F_: the payload
\* field itself up to 4 bytes, the bytes at the offset it holds otherwise.
PayloadBytes(F_, rec, n) ==
    IF rec.size <= 4 THEN SubSeq(Pack(rec.offset, 4), 1, n)
    ELSE FileRead(F_, rec.offset, n)

\* C6: read() of an entry of a user-defined type (code >= 1024) returns the
\* entry's source bytes as a raw byte sequence, one element or many.
C6_UserTypeIsSourceBytes ==
    (ReadOfEntry /\ directory[result.key].type_ >= 1024)
    => /\ result.kind = "ok"
       /\ result.val = Val("bytes", PayloadBytes(F, directory[result.key],
                                                 directory[result.key].size))

\* The bytes of the string an entry of type 18 (Pascal) or 19 (C) holds.
StringBytes(F_, rec) ==
    UnpackElem(IF rec.type_ = 18 THEN "p" ELSE "s",
               PayloadBytes(F_, rec, rec.elements)).v

\* Text with one trailing NUL removed when the bytes decode, the bytes
\* themselves when they do not.
TextOrBytes(b) ==
    IF Decode(b) = DecodeError THEN Val("bytes", b) ELSE StripNul(Decode(b)).val

\* C7: read() of a string-typed entry returns its text, one trailing NUL
\* removed, and returns the raw bytes unchanged when they are not text.
C7_StringOrRawBytes ==
    (ReadOfEntry /\ directory[result.key].type_ \in {18, 19})
    => /\ result.kind = "ok"
       /\ result.val = TextOrBytes(StringBytes(F, directory[result.key]))

\* The four payload bytes of a date (type 10) or time (type 11) entry.
Stamp(F_, rec) == PayloadBytes(F_, rec, 4)

\* C8: a single-element date entry yields exactly the date year-month-day
\* and a single-element time entry exactly the clock time
\* hour:minute:second.
C8_DateAndTime ==
    (ReadOfEntry /\ directory[result.key].elements = 1
                 /\ directory[result.key].type_ \in {10, 11})
    => /\ result.kind = "ok"
       /\ result.val =
            IF directory[result.key].type_ = 10
            THEN Val("date", << UnpackS(SubSeq(Stamp(F, directory[result.key]), 1, 2)),
                                Stamp(F, directory[result.key])[3],
                                Stamp(F, directory[result.key])[4] >>)
            ELSE Val("time", << Stamp(F, directory[result.key])[1],
                                Stamp(F, directory[result.key])[2],
                                Stamp(F, directory[result.key])[3], 0 >>)

\* The encoded size of one element of type type_, 0 when struct has none.
ElementSize(type_) ==
    IF type_ >= 1024 THEN 1
    ELSE IF TypeIndex(type_) = 0 \/ IsBadFmt(ReadFmt(type_, 1)) THEN 0
    ELSE CalcSize(ReadFmt(type_, 1))

\* The record rec, its payload an offset o instead of inline bytes.
AtOffset(rec, o) == [rec EXCEPT !.size = 5, !.offset = o]

\* Reading rec and rec2 now gives one outcome.
SameRead(rec, rec2) ==
    /\ ReadRecord(F, fileobj, pos, rec).kind = ReadRecord(F, fileobj, pos, rec2).kind
    /\ ReadRecord(F, fileobj, pos, rec).val = ReadRecord(F, fileobj, pos, rec2).val

\* C9: a single element held inline decodes to the value that the same
\* bytes decode to when a record of that type and count holds their offset.
C9_InlineEqualsOffset ==
    (IsOpen /\ hasDirectory)
    => \A k \in DOMAIN directory :
          ( /\ directory[k].elements = 1
            /\ directory[k].size <= 4
            /\ ElementSize(directory[k].type_) \in 1..4 )
          => \A o \in 0..(Len(F) - ElementSize(directory[k].type_)) :
                FileRead(F, o, ElementSize(directory[k].type_))
                    = PayloadBytes(F, directory[k], ElementSize(directory[k].type_))
                => SameRead(directory[k], AtOffset(directory[k], o))

\* C10: with no open() or close() in between, two read() calls of one key
\* on an Open handle return the same value.
C10_RereadSame ==
    (result.op = "read" /\ first # <<>> /\ first[1].key = result.key)
    => /\ result.kind = first[1].kind
       /\ result.val = first[1].val

(***************************************************************************)
(* C11                                                                     *)
(***************************************************************************)
\* open() has been called and had an open file object to read.
OpenedSource == result.op \in {"open", "enter"} /\ result.at >= 0 /\ fileobj = "open"

\* C11: whatever the position of the source before the call, open() ends
\* as it does reading the header at offset 0, and on success holds the
\* version and the Directory parsed from there.
C11_HeaderAtZero ==
    OpenedSource
    => /\ result.kind = OpenCall(F, "open", 0).kind
       /\ result.kind = "ok"
            => /\ version = OpenCall(F, "open", 0).version
               /\ directory = OpenCall(F, "open", 0).dir

(***************************************************************************)
(* C12                                                                     *)
(***************************************************************************)
\* The type codes TYPES maps to '-'.
Reserved == {i \in 0..(Len(TYPES) - 1) : IsBadFmt(TYPES[i + 1].items)}

\* C12: read() of an entry of a reserved type code fails, with a kind that
\* is neither UnknownTagError nor FormatError.
C12_ReservedTypeRejected ==
    (ReadOfEntry /\ directory[result.key].type_ \in Reserved)
    => result.kind \notin ({"ok", UnknownTagError} \cup FormatError)

(***************************************************************************)
(* C13                                                                     *)
(***************************************************************************)
\* close() has released the source of a handle that was Open.
IsClosed == closed # "None" /\ fileobj = "closed"

\* C13: on a handle that has been closed no read() and no accessor returns
\* a value.
C13_NoValueAfterClose ==
    (IsClosed /\ result.op \in {"read", "getattr"}) => result.kind # "ok"

(***************************************************************************)
(* C14                                                                     *)
(***************************************************************************)
\* C14: a handle built from a filename that has entered the scoped block
\* is Open, its source open and its Directory populated.
C14_EnterReopens ==
    (filename /\ result.op = "enter" /\ inWith)
    => /\ fileobj = "open"
       /\ closed = "False"
       /\ hasDirectory
=============================================================================
